---- MODULE Spec2Model ----
(***************************************************************************)
(* Model of fractal_tree/Mesh.py: the Mesh class (construction of normals  *)
(* and of the node -> triangles map) and Mesh.project_new_point.           *)
(*                                                                         *)
(* Numbers.  numpy float64 values are modelled as exact rationals          *)
(* <<n, d>> in lowest terms with d > 0, plus the value NaN == <<0, 0>>     *)
(* that numpy produces for 0/0.  NaN propagates through every arithmetic   *)
(* operation and makes every comparison false, as IEEE-754 does.  Rounding *)
(* error is not modelled.                                                  *)
(*                                                                         *)
(* Vertex and triangle indices are 0-based as in the source: verts,        *)
(* connectivity and normals are functions on 0..n-1.  Python lists that    *)
(* the code builds by append (node_to_tri[v], CPP, order) and coordinate   *)
(* triples are sequences; their positions are 1-based here.                *)
(***************************************************************************)
EXTENDS Integers, Sequences, FiniteSets, TLC

VARIABLES msh, verts, connectivity, normals, node_to_tri, tree, pc, call, built

vars == <<msh, verts, connectivity, normals, node_to_tri, tree, pc, call, built>>

(***************************************************************************)
(* Rational arithmetic with NaN                                            *)
(***************************************************************************)
NaN == <<0, 0>>

IsNaN(a) == a[2] = 0

IAbs(n) == IF n < 0 THEN -n ELSE n

RECURSIVE GCD(_, _)
GCD(a, b) == IF b = 0 THEN a ELSE GCD(b, a % b)

\* the rational n/d (d # 0) in lowest terms with a positive denominator
Q(n, d) ==
    LET g == GCD(IAbs(n), IAbs(d))
        s == IF d < 0 THEN -1 ELSE 1
    IN  <<(s * n) \div g, (s * d) \div g>>

I(n) == <<n, 1>>

RAdd(a, b) == IF IsNaN(a) \/ IsNaN(b) THEN NaN
              ELSE Q(a[1] * b[2] + b[1] * a[2], a[2] * b[2])

RNeg(a) == IF IsNaN(a) THEN NaN ELSE <<-a[1], a[2]>>

RSub(a, b) == RAdd(a, RNeg(b))

RMul(a, b) == IF IsNaN(a) \/ IsNaN(b) THEN NaN
              ELSE Q(a[1] * b[1], a[2] * b[2])

\* float division: 0/0 and NaN operands give NaN.  A nonzero numerator over
\* zero (an infinity) has no value here: the CHOOSE over the empty set stops
\* the evaluation rather than continue with a wrong number.
RDiv(a, b) == IF IsNaN(a) \/ IsNaN(b) THEN NaN
              ELSE IF b[1] = 0
                   THEN IF a[1] = 0 THEN NaN ELSE CHOOSE x \in {} : TRUE
                   ELSE Q(a[1] * b[2], a[2] * b[1])

RAbs(a) == <<IAbs(a[1]), a[2]>>

\* comparisons: false as soon as an operand is NaN
RLe(a, b) == ~IsNaN(a) /\ ~IsNaN(b) /\ a[1] * b[2] <= b[1] * a[2]

RLt(a, b) == ~IsNaN(a) /\ ~IsNaN(b) /\ a[1] * b[2] < b[1] * a[2]

RGe(a, b) == RLe(b, a)

ISqrt(n) == CHOOSE k \in 0..n : k * k = n

\* exact square root; defined on squares of rationals only
RSqrt(a) == IF IsNaN(a) THEN NaN ELSE <<ISqrt(a[1]), ISqrt(a[2])>>

(***************************************************************************)
(* numpy vector operations on arrays of shape (3,)                         *)
(***************************************************************************)
\* an array of shape (3,): the tuple <<x, y, z>>, coordinate j of the source
\* at position j + 1
Vec(x, y, z) == <<x, y, z>>

VSub(a, b) == <<RSub(a[1], b[1]), RSub(a[2], b[2]), RSub(a[3], b[3])>>

VAdd(a, b) == <<RAdd(a[1], b[1]), RAdd(a[2], b[2]), RAdd(a[3], b[3])>>

VScale(a, k) == <<RMul(a[1], k), RMul(a[2], k), RMul(a[3], k)>>

VDivS(a, k) == <<RDiv(a[1], k), RDiv(a[2], k), RDiv(a[3], k)>>

VNeg(a) == <<RNeg(a[1]), RNeg(a[2]), RNeg(a[3])>>

Dot(a, b) == RAdd(RAdd(RMul(a[1], b[1]), RMul(a[2], b[2])), RMul(a[3], b[3]))

Cross(a, b) ==
    <<RSub(RMul(a[2], b[3]), RMul(a[3], b[2])),
      RSub(RMul(a[3], b[1]), RMul(a[1], b[3])),
      RSub(RMul(a[1], b[2]), RMul(a[2], b[1]))>>

Norm(a) == RSqrt(Dot(a, a))

VIsNaN(a) == \E j \in 1..3 : IsNaN(a[j])

Zero3 == Vec(I(0), I(0), I(0))

\* a 0-based array from a sequence
Arr(s) == [i \in 0..(Len(s) - 1) |-> s[i + 1]]

ALen(a) == Cardinality(DOMAIN a)

NoArr == Arr(<<>>)

(***************************************************************************)
(* Input meshes: what meshio.read returns (points, cells[0].data)          *)
(***************************************************************************)
GridMax == 2

P3(x, y, z) == Vec(I(x), I(y), I(z))

Tri(a, b, c) == [j \in 0..2 |-> CASE j = 0 -> a [] j = 1 -> b [] OTHER -> c]

\* the planar unit quad of the spec's scenario, split along the diagonal v0-v2
QuadPoints == <<P3(0, 0, 0), P3(1, 0, 0), P3(1, 1, 0), P3(0, 1, 0)>>

Quad == [points |-> Arr(QuadPoints),
         cells  |-> Arr(<<Tri(0, 1, 2), Tri(0, 2, 3)>>)]

\* the quad with a third triangle hanging down from the edge v0-v3 (normal +x)
Ledge == [points |-> Arr(QuadPoints \o <<P3(0, 0, -1)>>),
          cells  |-> Arr(<<Tri(0, 1, 2), Tri(0, 2, 3), Tri(0, 4, 3)>>)]

\* the quad with a vertex that no triangle uses
Loose == [points |-> Arr(QuadPoints \o <<P3(0, 0, 1)>>),
          cells  |-> Arr(<<Tri(0, 1, 2), Tri(0, 2, 3)>>)]

\* the same triangle twice, with opposite winding
Flip == [points |-> Arr(QuadPoints),
         cells  |-> Arr(<<Tri(0, 1, 2), Tri(0, 2, 1)>>)]

\* three distinct vertices on one line
Collinear == [points |-> Arr(<<P3(0, 0, 0), P3(1, 0, 0), P3(2, 0, 0), P3(0, 1, 0)>>),
              cells  |-> Arr(<<Tri(0, 1, 2), Tri(0, 1, 3)>>)]

\* two vertices at the same position, the second one used by no triangle
Seam == [points |-> Arr(<<P3(0, 0, 0), P3(1, 0, 0), P3(1, 1, 0), P3(0, 0, 0)>>),
         cells  |-> Arr(<<Tri(0, 1, 2)>>)]

\* every mesh of one triangle over three of the quad's vertices, repeated
\* indices included
Singles == {[points |-> Arr(SubSeq(QuadPoints, 1, 3)), cells |-> Arr(<<Tri(a, b, c)>>)] :
                a \in 0..2, b \in 0..2, c \in 0..2}

Meshes == {Quad, Ledge, Loose, Flip, Collinear, Seam} \cup Singles

\* the query points: a grid on the unit quad, the two queries of the spec's
\* scenario, points of the faces of Ledge, the vertices off the quad, and
\* points away from every mesh
Grid == {Vec(Q(i, 2), Q(j, 2), I(0)) : i \in 0..GridMax, j \in 0..GridMax}

QueryPoints ==
    Grid \cup {Vec(Q(1, 2), Q(1, 2), I(5)), Vec(Q(1, 5), Q(1, 5), I(3)),
               Vec(Q(1, 8), Q(1, 4), I(0)), Vec(Q(1, 4), Q(1, 4), I(0)),
               Vec(Q(3, 4), Q(1, 4), I(0)), P3(-1, -1, 0), P3(0, 0, -1),
               P3(0, 0, 1), P3(9, 7, 8)}

(***************************************************************************)
(* Mesh.__init__                                                           *)
(***************************************************************************)
\* collections.defaultdict(list): a missing key reads as the empty list
Lookup(d, key) == IF key \in DOMAIN d THEN d[key] ELSE <<>>

\* the loops "for i in range(len(connectivity)): for j in range(3):
\* node_to_tri[connectivity[i, j]].append(i)", step k = 3*i + j
RECURSIVE AppendLoop(_, _, _)
AppendLoop(conn, k, d) ==
    IF k >= 3 * ALen(conn) THEN d
    ELSE LET i == k \div 3
             v == conn[i][k % 3]
         IN  AppendLoop(conn, k + 1, (v :> Append(Lookup(d, v), i)) @@ d)

\* the inner loop written "for j in range(2)": the third corner is skipped
RECURSIVE AppendLoopTwoCorners(_, _, _)
AppendLoopTwoCorners(conn, k, d) ==
    IF k >= 3 * ALen(conn) THEN d
    ELSE LET i == k \div 3
             v == conn[i][k % 3]
         IN  AppendLoopTwoCorners(conn, k + 1,
                 IF k % 3 = 2 THEN d ELSE (v :> Append(Lookup(d, v), i)) @@ d)

NodeToTriTwoCorners(conn) == AppendLoopTwoCorners(conn, 0, NoArr)

NodeToTri(conn) == AppendLoop(conn, 0, NoArr)

\* u x v for triangle i: the raw normal before normalisation
RawNormal(vs, conn, i) ==
    Cross(VSub(vs[conn[i][1]], vs[conn[i][0]]), VSub(vs[conn[i][2]], vs[conn[i][0]]))

\* normals[i, :] = n / np.linalg.norm(n); a zero n gives 0/0 = NaN
TriNormals(vs, conn) ==
    [i \in DOMAIN conn |-> LET n == RawNormal(vs, conn, i) IN VDivS(n, Norm(n))]

NoCall == [outcome |-> "none", point |-> Zero3, node |-> -1, triangles |-> <<>>,
           pre_projected_point |-> Zero3, CPP |-> <<>>,
           projected_point |-> Zero3, intriangle |-> -1]

Init ==
    /\ msh \in Meshes
    /\ verts = NoArr
    /\ connectivity = NoArr
    /\ normals = NoArr
    /\ node_to_tri = NoArr
    /\ tree = NoArr
    /\ pc = "new"
    /\ call = NoCall
    /\ built = NoArr

Mesh_init ==
    /\ pc = "new"
    /\ verts' = msh.points
    /\ connectivity' = msh.cells
    /\ normals' = TriNormals(msh.points, msh.cells)
    /\ node_to_tri' = NodeToTri(msh.cells)
    /\ tree' = msh.points
    /\ pc' = "ready"
    /\ built' = NodeToTri(msh.cells)
    /\ UNCHANGED <<msh, call>>

(***************************************************************************)
(* Mesh.project_new_point                                                  *)
(***************************************************************************)
Dist2(a, b) == Dot(VSub(a, b), VSub(a, b))

\* self.tree.query(point): the index of a vertex at minimal distance; which
\* one among equidistant vertices is the k-d tree's choice
RECURSIVE Distances(_, _)
Distances(point, k) ==
    IF k >= ALen(tree) THEN <<>>
    ELSE <<Dist2(point, tree[k])>> \o Distances(point, k + 1)

Nearest(point) ==
    LET d == Distances(point, 0)
    IN  {v \in DOMAIN tree : \A w \in DOMAIN tree : RLe(d[v + 1], d[w + 1])}

\* self.node_to_tri[node] on a defaultdict: reading a missing key inserts it
\* with an empty list
Touch(d, key) == IF key \in DOMAIN d THEN d ELSE (key :> <<>>) @@ d

\* np.sum(self.normals[triangles], axis=0)
RECURSIVE SumNormals(_, _)
SumNormals(triangles, k) ==
    IF k > Len(triangles) THEN Zero3
    ELSE VAdd(normals[triangles[k]], SumNormals(triangles, k + 1))

\* vertex_normal = s / norm(s); point - vertex_normal * dot(point - verts[node],
\* vertex_normal).  norm(s) is irrational in general, so the two factors
\* 1/norm(s) are taken together as 1/dot(s, s), which is the same number;
\* s = 0 gives 0/0 = NaN in both forms.
PreProject(point, node, triangles) ==
    LET s == SumNormals(triangles, 1)
    IN  VSub(point, VScale(s, RDiv(Dot(VSub(point, verts[node]), s), Dot(s, s))))

\* the loop "for tri in triangles: CPP.append(dot(pre_projected_point -
\* verts[connectivity[tri, 0]], normals[tri]))", from position k on
RECURSIVE ClosestPointProjection(_, _, _)
ClosestPointProjection(pre, triangles, k) ==
    IF k > Len(triangles) THEN <<>>
    ELSE <<Dot(VSub(pre, verts[connectivity[triangles[k]][0]]), normals[triangles[k]])>>
         \o ClosestPointProjection(pre, triangles, k + 1)

\* the order numpy sorts floats in: NaN after every number
SortLe(a, b) == IsNaN(b) \/ RLe(a, b)

\* CPP.argsort() without np.abs: sorted by signed distance
ArgsortSigned(CPP) ==
    {o \in [1..Len(CPP) -> 1..Len(CPP)] :
        /\ \A a, b \in 1..Len(CPP) : a # b => o[a] # o[b]
        /\ \A a \in 1..(Len(CPP) - 1) : SortLe(CPP[o[a]], CPP[o[a + 1]])}

\* np.abs(CPP).argsort()[::-1]: furthest plane first
ArgsortDescending(CPP) ==
    {o \in [1..Len(CPP) -> 1..Len(CPP)] :
        /\ \A a, b \in 1..Len(CPP) : a # b => o[a] # o[b]
        /\ \A a \in 1..(Len(CPP) - 1) : SortLe(RAbs(CPP[o[a + 1]]), RAbs(CPP[o[a]]))}

\* np.abs(CPP).argsort(): the permutations that put |CPP| in ascending order;
\* the default sort is not stable, so equal keys come in any order
Argsort(CPP) ==
    {o \in [1..Len(CPP) -> 1..Len(CPP)] :
        /\ \A a, b \in 1..Len(CPP) : a # b => o[a] # o[b]
        /\ \A a \in 1..(Len(CPP) - 1) : SortLe(RAbs(CPP[o[a]]), RAbs(CPP[o[a + 1]]))}

\* pre_projected_point - CPP[o] * normals[i]
ProjectOnto(pre, d, i) == VSub(pre, VScale(normals[i], d))

Slack == Q(1001, 1000)

\* the same test with "sign_r > 0 and sign_t > 0": points on the edges
\* through the first vertex are rejected
InTriangleStrict(i, projected_point) ==
    LET u == VSub(verts[connectivity[i][1]], verts[connectivity[i][0]])
        v == VSub(verts[connectivity[i][2]], verts[connectivity[i][0]])
        w == VSub(projected_point, verts[connectivity[i][0]])
        vxw == Cross(v, w)
        vxu == Cross(v, u)
        uxw == Cross(u, w)
        sign_r == Dot(vxw, vxu)
        sign_t == Dot(uxw, VNeg(vxu))
    IN  /\ RLt(I(0), sign_r)
        /\ RLt(I(0), sign_t)
        /\ LET r == RDiv(Norm(vxw), Norm(vxu))
               t == RDiv(Norm(uxw), Norm(vxu))
           IN  RLe(r, I(1)) /\ RLe(t, I(1)) /\ RLe(RAdd(r, t), Slack)

\* the test of lines 121-141 for triangle i and a point of its plane
InTriangle(i, projected_point) ==
    LET u == VSub(verts[connectivity[i][1]], verts[connectivity[i][0]])
        v == VSub(verts[connectivity[i][2]], verts[connectivity[i][0]])
        w == VSub(projected_point, verts[connectivity[i][0]])
        vxw == Cross(v, w)
        vxu == Cross(v, u)
        uxw == Cross(u, w)
        sign_r == Dot(vxw, vxu)
        sign_t == Dot(uxw, VNeg(vxu))
    IN  /\ RGe(sign_r, I(0))
        /\ RGe(sign_t, I(0))
        /\ LET r == RDiv(Norm(vxw), Norm(vxu))
               t == RDiv(Norm(uxw), Norm(vxu))
           IN  RLe(r, I(1)) /\ RLe(t, I(1)) /\ RLe(RAdd(r, t), Slack)

\* the loop "for o in order", from position k on: the first triangle that
\* passes ends it; after the last one the point computed last is returned
\* with intriangle = -1
RECURSIVE Scan(_, _, _, _, _)
Scan(order, k, pre, CPP, triangles) ==
    LET i == triangles[order[k]]
        projected_point == ProjectOnto(pre, CPP[order[k]], i)
    IN  IF InTriangle(i, projected_point)
        THEN [projected_point |-> projected_point, intriangle |-> i]
        ELSE IF k = Len(order)
             THEN [projected_point |-> projected_point, intriangle |-> -1]
             ELSE Scan(order, k + 1, pre, CPP, triangles)

\* the wrong guard "len(triangles) <= 1"
UnconnectedOrSingle(triangles) == Len(triangles) <= 1

\* if len(triangles) == 0: raise Exception("node not connected to triangles")
Unconnected(triangles) == Len(triangles) = 0

project_new_point(point) ==
    /\ pc = "ready"
    /\ \E node \in Nearest(point) :
         LET triangles == Lookup(node_to_tri, node)
         IN  /\ node_to_tri' = Touch(node_to_tri, node)
             /\ IF Unconnected(triangles)
                THEN call' = [NoCall EXCEPT !.outcome = "raise", !.point = point,
                                            !.node = node]
                ELSE LET pre == PreProject(point, node, triangles)
                         CPP == ClosestPointProjection(pre, triangles, 1)
                     IN  \E order \in Argsort(CPP) :
                           LET res == Scan(order, 1, pre, CPP, triangles)
                           IN  call' = [outcome |-> "return", point |-> point,
                                        node |-> node, triangles |-> triangles,
                                        pre_projected_point |-> pre, CPP |-> CPP,
                                        projected_point |-> res.projected_point,
                                        intriangle |-> res.intriangle]
    /\ UNCHANGED <<msh, verts, connectivity, normals, tree, pc, built>>

Next ==
    \/ Mesh_init
    \/ \E point \in QueryPoints : project_new_point(point)

Spec == Init /\ [][Next]_vars

(***************************************************************************)
(* Geometry of the mesh, stated independently of the projection code       *)
(***************************************************************************)
Elems(seq) == {seq[k] : k \in 1..Len(seq)}

\* the triangles that list vertex v
Incident(v) == {t \in DOMAIN connectivity : \E j \in 0..2 : connectivity[t][j] = v}

\* every vertex belongs to at least one triangle
WellFormed == \A v \in DOMAIN verts : Incident(v) # {}

\* the coordinates (r, t) of p = a + r*u + t*v in triangle i, times |u x v|^2
BaryR(p, i) ==
    LET a == verts[connectivity[i][0]]
        v == VSub(verts[connectivity[i][2]], a)
    IN  Dot(Cross(VSub(p, a), v), RawNormal(verts, connectivity, i))

BaryT(p, i) ==
    LET a == verts[connectivity[i][0]]
        u == VSub(verts[connectivity[i][1]], a)
    IN  Dot(Cross(u, VSub(p, a)), RawNormal(verts, connectivity, i))

Area2(i) == LET n == RawNormal(verts, connectivity, i) IN Dot(n, n)

OnPlane(p, i) ==
    Dot(VSub(p, verts[connectivity[i][0]]), RawNormal(verts, connectivity, i)) = I(0)

\* p lies on triangle i, edges included
OnTriangle(p, i) ==
    /\ OnPlane(p, i)
    /\ RGe(BaryR(p, i), I(0))
    /\ RGe(BaryT(p, i), I(0))
    /\ RLe(RAdd(BaryR(p, i), BaryT(p, i)), Area2(i))

\* p lies on triangle i, strictly inside its three edges
StrictlyInside(p, i) ==
    /\ OnPlane(p, i)
    /\ RLt(I(0), BaryR(p, i))
    /\ RLt(I(0), BaryT(p, i))
    /\ RLt(RAdd(BaryR(p, i), BaryT(p, i)), Area2(i))

Called == call.outcome # "none"

Returned == call.outcome = "return"

Hit == Returned /\ call.intriangle # -1

Miss == Returned /\ call.intriangle = -1

\* the projection of the pre-projected point onto the plane of candidate k
Candidate(k) == ProjectOnto(call.pre_projected_point, call.CPP[k], call.triangles[k])

Passes(k) == InTriangle(call.triangles[k], Candidate(k))

Cands == 1..Len(call.triangles)

(***************************************************************************)
(* Claims                                                                  *)
(***************************************************************************)

\* C1: a query point that lies on a triangle t, strictly inside its edges
\* (and on no other triangle), is returned unchanged together with t.
C1_OnSurfaceIdempotence ==
    Called =>
        \A t \in DOMAIN connectivity :
            (/\ StrictlyInside(call.point, t)
             /\ \A t2 \in DOMAIN connectivity \ {t} : ~OnTriangle(call.point, t2))
            => /\ Returned
               /\ call.projected_point = call.point
               /\ call.intriangle = t

QuadBuilt == pc = "ready" /\ msh = Quad

AboveDiagonal == Vec(Q(1, 2), Q(1, 2), I(5))

AboveFifth == Vec(Q(1, 5), Q(1, 5), I(3))

\* C2 as stated: on the quad, (0.5, 0.5, 5) projects to (0.5, 0.5, 0) in t0 or
\* t1, and (0.2, 0.2, 3) projects to (0.2, 0.2, 0) in t0.
C2_QuadScenario ==
    QuadBuilt =>
        /\ call.point = AboveDiagonal =>
              /\ Returned
              /\ call.projected_point = Vec(Q(1, 2), Q(1, 2), I(0))
              /\ call.intriangle \in {0, 1}
        /\ call.point = AboveFifth =>
              /\ Returned
              /\ call.projected_point = Vec(Q(1, 5), Q(1, 5), I(0))
              /\ call.intriangle = 0

\* C2 amended: on the quad, (0.5, 0.5, 5) projects to (0.5, 0.5, 0) and
\* (0.2, 0.2, 3) projects to (0.2, 0.2, 0); both projections lie on the shared
\* diagonal and the triangle returned is t0 or t1.
C2_QuadScenarioEitherTriangle ==
    QuadBuilt =>
        /\ call.point = AboveDiagonal =>
              /\ Returned
              /\ call.projected_point = Vec(Q(1, 2), Q(1, 2), I(0))
              /\ call.intriangle \in {0, 1}
        /\ call.point = AboveFifth =>
              /\ Returned
              /\ call.projected_point = Vec(Q(1, 5), Q(1, 5), I(0))
              /\ call.intriangle \in {0, 1}

C2_Witness ==
    /\ QuadBuilt
    /\ call.point = AboveFifth
    /\ Returned
    /\ call.intriangle = 1

\* C3: a mesh with a triangle of zero area is never constructed: no built
\* mesh holds a zero raw normal or a NaN normal.
C3_DegenerateRejected ==
    pc = "ready" =>
        \A t \in DOMAIN connectivity :
            /\ RawNormal(verts, connectivity, t) # Zero3
            /\ ~VIsNaN(normals[t])

\* C4: a call raises exactly when the vertex nearest to the query point
\* belongs to no triangle of connectivity.
C4_RaisesIffUnconnected ==
    Called =>
        /\ call.node \in DOMAIN verts
        /\ \A w \in DOMAIN verts :
              RLe(Dist2(call.point, verts[call.node]), Dist2(call.point, verts[w]))
        /\ (call.outcome = "raise") <=> (Incident(call.node) = {})

C4_Witness == call.outcome = "raise" /\ Incident(call.node) = {}

\* C5 as stated: on a miss the returned point is the projection onto the
\* plane of a candidate with the smallest |d_t|.
C5_MissReturnsClosestPlane ==
    Miss =>
        \E k \in Cands :
            /\ call.projected_point = Candidate(k)
            /\ \A j \in Cands : ~RLt(RAbs(call.CPP[j]), RAbs(call.CPP[k]))

\* C5 amended: a miss returns normally with index -1 and the point computed
\* last, which is the projection onto the plane of a candidate with the
\* largest |d_t|; no candidate passes the inside test.
C5_MissReturnsFurthestPlane ==
    Miss =>
        /\ \A k \in Cands : ~Passes(k)
        /\ \E k \in Cands :
              /\ call.projected_point = Candidate(k)
              /\ \A j \in Cands : ~RLt(RAbs(call.CPP[k]), RAbs(call.CPP[j]))

C5_Witness ==
    /\ Miss
    /\ \E j, k \in Cands : RLt(RAbs(call.CPP[j]), RAbs(call.CPP[k]))

\* C6: after construction no call changes verts, connectivity, normals or
\* node_to_tri, its set of keys included.
C6_MeshReadOnly ==
    pc = "ready" =>
        /\ verts = msh.points
        /\ connectivity = msh.cells
        /\ normals = TriNormals(msh.points, msh.cells)
        /\ node_to_tri = built
        /\ DOMAIN node_to_tri = DOMAIN built

\* C7: after construction t is listed in node_to_tri[v] exactly when v is a
\* vertex of triangle t, and no list holds a triangle twice.
C7_AdjacencyInverse ==
    (pc = "ready" /\ ~Called) =>
        /\ \A v \in DOMAIN verts : Elems(Lookup(node_to_tri, v)) = Incident(v)
        /\ \A v \in DOMAIN node_to_tri :
              \A a, b \in 1..Len(node_to_tri[v]) :
                  a # b => node_to_tri[v][a] # node_to_tri[v][b]

\* C8: projecting the position of a vertex v that has an incident triangle
\* returns that position and a triangle of node_to_tri[v].
C8_VertexSelfProjection ==
    Called =>
        \A v \in DOMAIN verts :
            (call.point = verts[v] /\ Incident(v) # {})
            => /\ Returned
               /\ call.projected_point = verts[v]
               /\ call.intriangle \in Elems(Lookup(node_to_tri, v))

\* C9: on a mesh where every vertex has an incident triangle a call never
\* raises; it returns a point and either -1 or the index of a triangle.
C9_NoRaiseOnWellFormed ==
    (Called /\ WellFormed) =>
        /\ Returned
        /\ Len(call.projected_point) = 3
        /\ call.intriangle \in DOMAIN connectivity \cup {-1}

C9_Witness ==
    /\ WellFormed
    /\ call.point = P3(9, 7, 8)
    /\ Miss

\* C10: a returned triangle is incident to the nearest vertex, passes the
\* inside test at the returned point, which is the projection onto its
\* plane, and no candidate with a strictly smaller |d_t| passes the test.
C10_ClosestPassingPlaneWins ==
    Hit =>
        /\ call.intriangle \in Incident(call.node)
        /\ InTriangle(call.intriangle, call.projected_point)
        /\ \E k \in Cands :
              /\ call.triangles[k] = call.intriangle
              /\ call.projected_point = Candidate(k)
              /\ \A j \in Cands :
                    RLt(RAbs(call.CPP[j]), RAbs(call.CPP[k])) => ~Passes(j)

C10_Witness ==
    /\ Hit
    /\ \E j, k \in Cands :
          /\ call.triangles[k] = call.intriangle
          /\ RLt(RAbs(call.CPP[k]), RAbs(call.CPP[j]))
          /\ Passes(j)
          /\ Passes(k)

====
